---- MODULE Spec2Model ----
(***************************************************************************)
(* crc16_wmbus (src/main.py): CRC16 EN 13757 computed by long division of  *)
(* an unbounded integer.  Python integers have no width, so a value is     *)
(* modelled by the sequence of its binary digits, least significant first, *)
(* without leading zeros (0 is the empty sequence): element i+1 is bit i.  *)
(* A text (the hex message, the returned hex string) is a sequence of      *)
(* one-character strings.                                                  *)
(***************************************************************************)
EXTENDS Integers, Sequences, FiniteSets, TLC

VARIABLES pc, message, m, crc, m_bitlen, n, result, exc

vars == <<pc, message, m, crc, m_bitlen, n, result, exc>>

----------------------------------------------------------------------------
(* Bounds of the model *)

\* longest message text over all the characters, in hex digits
MaxDigits == 2
\* longest message text over the few characters of LongAlphabet
MaxLong == 5
\* longest message text of the calls that run concurrently
ConcDigits == 2
\* largest number of 00 bytes put in front of a message
MaxPad == 2

----------------------------------------------------------------------------
(* Program constants *)

crc_bits == 16
hex_radix == 16
g_bitlen == crc_bits

----------------------------------------------------------------------------
(* Unbounded integers as bit sequences *)

RECURSIVE Trim(_)
\* drop the leading zeros (the tail of the sequence)
Trim(x) == IF x = <<>> THEN <<>>
           ELSE IF x[Len(x)] = 1 THEN x
           ELSE Trim(SubSeq(x, 1, Len(x) - 1))

RECURSIVE Bits(_)
\* a (small) natural number as a bit sequence
Bits(k) == IF k = 0 THEN <<>> ELSE <<k % 2>> \o Bits(k \div 2)

RECURSIVE Val(_)
\* the number a (short) bit sequence stands for
Val(x) == IF x = <<>> THEN 0 ELSE x[1] + 2 * Val(Tail(x))

Zeros(k) == [i \in 1..k |-> 0]

BitOf(x, i) == IF i + 1 <= Len(x) THEN x[i + 1] ELSE 0

\* x << k
Shl(x, k) == IF x = <<>> THEN <<>> ELSE Zeros(k) \o x

Max(a, b) == IF a >= b THEN a ELSE b

\* x ^ y
Xor(x, y) == Trim([i \in 1..Max(Len(x), Len(y)) |->
                     (BitOf(x, i - 1) + BitOf(y, i - 1)) % 2])

\* x & (1 << k), as a truth value
TestBit(x, k) == BitOf(x, k) = 1

\* x % 2**k
ModPow2(x, k) == IF Len(x) <= k THEN x ELSE Trim(SubSeq(x, 1, k))

\* one digit short, the top bit of m(x) is never divided
bin_len_off(x) == Len(x) - 1

\* len(bin(x)[2:]): bin(0) is '0b0', one digit
bin_len(x) == IF x = <<>> THEN 1 ELSE Len(x)

----------------------------------------------------------------------------
(* Text conversions *)

HexUpper == <<"0","1","2","3","4","5","6","7","8","9","A","B","C","D","E","F">>
HexLower == <<"0","1","2","3","4","5","6","7","8","9","a","b","c","d","e","f">>

IsHexChar(c) == \E v \in 1..hex_radix : HexUpper[v] = c \/ HexLower[v] = c

\* a digit table with a typo: "9" reads as 8
HexVal_typo(c) ==
    IF c = "9" THEN 8
    ELSE (CHOOSE v \in 1..hex_radix : HexUpper[v] = c \/ HexLower[v] = c) - 1

HexVal(c) == (CHOOSE v \in 1..hex_radix : HexUpper[v] = c \/ HexLower[v] = c) - 1

\* int(text, 16) raises ValueError on the empty text and on a character
\* that is not a digit of the radix
int_ok(text) == Len(text) > 0 /\ \A i \in 1..Len(text) : IsHexChar(text[i])

\* the four bits of one hex digit, least significant first
Nibble(d) == [i \in 1..4 |-> (d \div (2 ^ (i - 1))) % 2]

\* the digits of the text weigh 16^0, 16^1, ... from the right: bit i of
\* the value is bit i % 4 of the digit i \div 4 places from the end
int_digits(text) ==
    [i \in 1..(4 * Len(text)) |->
        Nibble(HexVal(text[Len(text) - ((i - 1) \div 4)]))[((i - 1) % 4) + 1]]

int_le_digits(text) ==
    [i \in 1..(4 * Len(text)) |->
        Nibble(HexVal(text[((i - 1) \div 4) + 1]))[((i - 1) % 4) + 1]]

\* the digits read in the opposite order, least significant first
int_le(text) == Trim(int_le_digits(text))

\* int(text, hex_radix) for a text that int accepts
int(text) == Trim(int_digits(text))

\* struct.pack('<H', v) accepts 0 <= v <= 65535
pack_ok(v) == Len(v) <= 16

\* pack('>H', v): the high byte first
pack_be(v) == << Val(SubSeq(v \o Zeros(16), 9, 16)), Val(SubSeq(v \o Zeros(16), 1, 8)) >>

\* pack('<H', v): the low byte, then the high byte
pack(v) == << Val(SubSeq(v \o Zeros(16), 1, 8)), Val(SubSeq(v \o Zeros(16), 9, 16)) >>

\* hexlify: two lower-case hex digits per byte, high nibble first
hexlify(bytes) ==
    [i \in 1..(2 * Len(bytes)) |->
        IF i % 2 = 1 THEN HexLower[(bytes[(i + 1) \div 2] \div 16) + 1]
                     ELSE HexLower[(bytes[i \div 2] % 16) + 1]]

----------------------------------------------------------------------------
(* The function body *)

\* 0x3d56, two digits of the polynomial exchanged
g_typo == Bits(15702)

\* 0x3d65
g == Bits(15717)

\* the loop body without the reduction % 2**n
LoopBody_nomod(c, k) ==
    IF TestBit(c, k)
    THEN Xor(c, Shl(g, k - g_bitlen))
    ELSE c

\* lines 61-67: one pass of the loop body at bit position k
LoopBody(c, k) ==
    IF TestBit(c, k)
    THEN ModPow2(Xor(c, Shl(g, k - g_bitlen)), k)
    ELSE c

RECURSIVE Divide(_, _)
\* the for loop: k runs from m_bitlen - 1 down to g_bitlen
Divide(c, k) == IF k < g_bitlen THEN c ELSE Divide(LoopBody(c, k), k - 1)

\* the final complement
Complement(c) == Xor(c, Bits(65535))

\* the whole call: what it raises and what it returns
crc16_wmbus(text) ==
    IF ~int_ok(text) THEN [raised |-> "ValueError", ret |-> <<>>]
    ELSE LET m0 == Shl(int(text), crc_bits)
             c  == Complement(Divide(m0, bin_len(m0) - 1))
         IN  IF pack_ok(c) THEN [raised |-> "none", ret |-> hexlify(pack(c))]
             ELSE [raised |-> "struct.error", ret |-> <<>>]

----------------------------------------------------------------------------
(* Calls and their inputs *)

Calls == {1, 2}

\* one frame for all calls, as if the locals were module globals
frame_shared(p) == CHOOSE q \in Calls : \A r \in Calls : q <= r

\* the frame that holds the locals m, crc, m_bitlen and n of call p:
\* they are function locals, every call has its own
frame(p) == p

\* the message of the example on p. 84 and of the two captured telegrams
Vector1 == <<"1","4","4","4","A","E","0","C","7","8","5","6","3","4","1","2","0","1","0","7","8","C","2","0","2","7","7","8","0","B","1","3","4","3","6","5","8","7">>
Vector2 == <<"7","9","1","3","8","C","7","9","7","6","C","E","0","0","0","0","0","0","0","0","0","0","0","0","0","0","0","4","0","0","0","0","0","0","0","0","0","0","0","0","0","0">>
Vector3 == <<"7","9","1","3","8","C","4","4","9","1","C","E","0","0","0","0","0","0","0","0","0","0","0","0","0","0","0","3","0","0","0","0","0","0","0","0","0","0","0","0","0","0">>
Vectors == <<Vector1, Vector2, Vector3>>

\* the checksums the assertions expect for them
Expected == << <<"c","5","7","a">>, <<"b","b","5","2">>, <<"1","1","7","0">> >>

\* the text with bit b of the message toggled (bit 0 is the last bit)
Toggle(text, b) ==
    LET i == Len(text) - (b \div 4)
        v == HexVal(text[i])
        w == 2 ^ (b % 4)
        u == IF (v \div w) % 2 = 1 THEN v - w ELSE v + w
    IN  [text EXCEPT ![i] = HexUpper[u + 1]]

Toggled(text) == {Toggle(text, b) : b \in 0..(4 * Len(text) - 1)}

TextsUpTo(S, k) == UNION {[1..j -> S] : j \in 0..k}

\* the characters of the enumerated texts: the hex digits and one
\* character that is not a hex digit
Alphabet == {HexUpper[v] : v \in 1..16} \cup {"G"}

\* the characters of the texts of concurrent calls
ConcAlphabet == {"0", "7", "F"}

\* the characters of the longer enumerated texts
LongAlphabet == {"0", "1", "8", "F"}

\* every text up to the bounds
Inputs == TextsUpTo(Alphabet, MaxDigits) \cup TextsUpTo(LongAlphabet, MaxLong)

\* the known vectors and each of them with one bit toggled
VecInputs == {Vectors[i] : i \in 1..3} \cup UNION {Toggled(Vectors[i]) : i \in 1..3}

ConcInputs == TextsUpTo(ConcAlphabet, ConcDigits)

----------------------------------------------------------------------------
(* One call as a state machine *)

\* line 51 raises, or lines 51-55 set up the division
Start(p) ==
    /\ pc[p] = "start"
    /\ IF int_ok(message[p])
       THEN LET m0 == Shl(int(message[p]), crc_bits)
            IN  /\ m' = [m EXCEPT ![frame(p)] = m0]
                /\ crc' = [crc EXCEPT ![frame(p)] = m0]
                /\ m_bitlen' = [m_bitlen EXCEPT ![frame(p)] = bin_len(m0)]
                /\ n' = [n EXCEPT ![frame(p)] = bin_len(m0) - 1]
                /\ pc' = [pc EXCEPT ![p] = "loop"]
                /\ exc' = exc
       ELSE /\ pc' = [pc EXCEPT ![p] = "raised"]
            /\ exc' = [exc EXCEPT ![p] = "ValueError"]
            /\ UNCHANGED <<m, crc, m_bitlen, n>>
    /\ UNCHANGED <<message, result>>

\* lines 59-67: one iteration of the for loop
Loop(p) ==
    /\ pc[p] = "loop"
    /\ n[frame(p)] >= g_bitlen
    /\ crc' = [crc EXCEPT ![frame(p)] = LoopBody(crc[frame(p)], n[frame(p)])]
    /\ n' = [n EXCEPT ![frame(p)] = n[frame(p)] - 1]
    /\ UNCHANGED <<pc, message, m, m_bitlen, result, exc>>

\* lines 72-77: the range is exhausted; complement, pack, return
Finish(p) ==
    /\ pc[p] = "loop"
    /\ n[frame(p)] < g_bitlen
    /\ LET c == Complement(crc[frame(p)])
       IN  /\ crc' = [crc EXCEPT ![frame(p)] = c]
           /\ IF pack_ok(c)
              THEN /\ result' = [result EXCEPT ![p] = hexlify(pack(c))]
                   /\ pc' = [pc EXCEPT ![p] = "done"]
                   /\ exc' = exc
              ELSE /\ result' = result
                   /\ pc' = [pc EXCEPT ![p] = "raised"]
                   /\ exc' = [exc EXCEPT ![p] = "struct.error"]
    /\ UNCHANGED <<message, m, m_bitlen, n>>

Next == \E p \in Calls : Start(p) \/ Loop(p) \/ Finish(p)

InitLocals ==
    /\ m = [p \in Calls |-> <<>>]
    /\ crc = [p \in Calls |-> <<>>]
    /\ m_bitlen = [p \in Calls |-> 0]
    /\ n = [p \in Calls |-> 0]
    /\ result = [p \in Calls |-> <<>>]
    /\ exc = [p \in Calls |-> "none"]

\* one call on the text t; the second call is never made
InitOne(t) ==
    /\ InitLocals
    /\ pc = [p \in Calls |-> IF p = 1 THEN "start" ELSE "idle"]
    /\ message = [p \in Calls |-> IF p = 1 THEN t ELSE <<>>]

Init == \E t \in Inputs : InitOne(t)

Spec == Init /\ [][Next]_vars

\* one call on a known vector or on a vector with one bit toggled
InitVec == \E t \in VecInputs : InitOne(t)

SpecVec == InitVec /\ [][Next]_vars

\* two calls that run concurrently
InitConc ==
    /\ InitLocals
    /\ pc = [p \in Calls |-> "start"]
    /\ message \in [Calls -> ConcInputs]

SpecConc == InitConc /\ [][Next]_vars

TypeOK ==
    /\ pc \in [Calls -> {"idle", "start", "loop", "done", "raised"}]
    /\ exc \in [Calls -> {"none", "ValueError", "struct.error"}]
    /\ \A p \in Calls : Len(result[p]) \in {0, 4}

----------------------------------------------------------------------------
(* The properties *)

Returned(p) == pc[p] = "done"
Ended(p) == pc[p] \in {"done", "raised"}
FFFF == <<"f", "f", "f", "f">>

\* C1: each of the three known vectors returns its documented checksum,
\* c57a, bb52 and 1170, the hex of the two output bytes, low byte first.
C1_KnownVectors ==
    \A i \in 1..3 :
        (message[1] = Vectors[i] /\ Ended(1))
            => (Returned(1) /\ result[1] = Expected[i])

C1_Witness ==
    /\ Returned(1)
    /\ message[1] = Vector3
    /\ result[1] = <<"1", "1", "7", "0">>

\* The classic bit-serial CRC: a 16-bit register, the input bit XORed into
\* the top bit, a shift to the left, and 0x3D65 XORed in whenever a 1 is
\* shifted out.
SerialBit(reg, b) ==
    LET top == ((reg \div 32768) + b) % 2
        sh  == (reg * 2) % 65536
    IN  IF top = 1 THEN Val(Xor(Bits(sh), g)) ELSE sh

\* the bits of the message, most significant first
MsgBits(text) ==
    [i \in 1..(4 * Len(text)) |->
        (HexVal(text[((i - 1) \div 4) + 1]) \div (2 ^ (3 - ((i - 1) % 4)))) % 2]

RECURSIVE SerialBits(_, _)
\* the register after the first k bits, from 0x0000
SerialBits(bits, k) ==
    IF k = 0 THEN 0 ELSE SerialBit(SerialBits(bits, k - 1), bits[k])

\* complemented with 0xFFFF and emitted low byte first
SerialCRC(text) ==
    LET r == 65535 - SerialBits(MsgBits(text), 4 * Len(text))
    IN  hexlify(<<r % 256, r \div 256>>)

\* a text that decodes into a whole number of bytes (none included)
IsByteText(text) ==
    /\ Len(text) % 2 = 0
    /\ \A i \in 1..Len(text) : IsHexChar(text[i])

\* C2: for every message, every byte sequence up to the bound, the call
\* returns what the classic bit-serial CRC returns.
C2_EqualsBitSerial ==
    (IsByteText(message[1]) /\ Ended(1))
        => (Returned(1) /\ result[1] = SerialCRC(message[1]))

\* the same for the messages of one or more bytes
C2_EqualsBitSerialNonEmpty ==
    (IsByteText(message[1]) /\ message[1] # <<>> /\ Ended(1))
        => (Returned(1) /\ result[1] = SerialCRC(message[1]))

\* C3: for the empty message the call does not fail, takes no division
\* step and returns the bytes FF FF.
C3_EmptyMessage ==
    (message[1] = <<>> /\ Ended(1))
        => (Returned(1) /\ result[1] = FFFF)

\* C4: for every message of one or more bytes (here: every text that int
\* accepts) the value left after the loop and the complement lies in
\* 0..65535, the packing does not overflow and the result is 2 bytes,
\* 4 hex digits.
C4_SixteenBits ==
    (int_ok(message[1]) /\ Ended(1))
        => /\ Returned(1)
           /\ exc[1] = "none"
           /\ Len(crc[1]) <= crc_bits
           /\ Len(result[1]) = 4

C4_Witness ==
    /\ Returned(1)
    /\ Len(message[1]) = 2
    /\ Len(m[1]) = 24
    /\ crc[1] # m[1]
    /\ Len(crc[1]) = crc_bits
    /\ Len(result[1]) = 4

\* C5: a hex text with an odd number of digits ends in an error and
\* returns no checksum.
C5_OddDigitsRejected ==
    (Len(message[1]) % 2 = 1 /\ int_ok(message[1]))
        => ~Returned(1)

\* C6: for each known vector and each bit of its message, the message with
\* that bit toggled returns a result that differs from the vector's
\* documented checksum.
C6_SingleBitDetected ==
    Ended(1) =>
        \A i \in 1..3 :
            message[1] \in Toggled(Vectors[i])
                => (Returned(1) /\ result[1] # Expected[i])

C6_Witness ==
    /\ Returned(1)
    /\ message[1] = Toggle(Vector1, 151)
    /\ result[1] # Expected[1]

\* C7: with the steps of two calls interleaved in any order, each call
\* ends as the same message computed alone does, and two calls on the same
\* message end alike.
C7_CallsIndependent ==
    /\ \A p \in Calls :
          Ended(p) =>
             crc16_wmbus(message[p]) = [raised |-> exc[p], ret |-> result[p]]
    /\ (message[1] = message[2] /\ Ended(1) /\ Ended(2))
          => (result[1] = result[2] /\ exc[1] = exc[2])

C7_Witness ==
    /\ Returned(1) /\ Returned(2)
    /\ message[1] # message[2]
    /\ result[1] # result[2]
    /\ Len(m[1]) > crc_bits /\ Len(m[2]) > crc_bits

\* the 17-bit generator, x^16 included: 0x13D65
g17 == Bits(81253)

\* C8: in the loop at bit position n, from bitlen(m) - 1 down to 16, crc is
\* below 2^(n+1); when bit n of crc is 1 the update equals crc XOR
\* (0x13D65 << (n - 16)), when it is 0 the update leaves crc unchanged.
C8_LoopInvariant ==
    (pc[1] = "loop" /\ n[1] >= g_bitlen)
        => /\ n[1] <= m_bitlen[1] - 1
           /\ Len(crc[1]) <= n[1] + 1
           /\ LoopBody(crc[1], n[1]) =
                 IF TestBit(crc[1], n[1])
                 THEN Xor(crc[1], Shl(g17, n[1] - g_bitlen))
                 ELSE crc[1]

C8_Witness ==
    /\ pc[1] = "loop"
    /\ n[1] >= g_bitlen
    /\ n[1] < m_bitlen[1] - 1
    /\ crc[1] # m[1]
    /\ TestBit(crc[1], n[1])

RECURSIVE ZeroBytes(_)
ZeroBytes(k) == IF k = 0 THEN <<>> ELSE <<"0", "0">> \o ZeroBytes(k - 1)

\* C9: for every non-empty message M, M with any number of 00 bytes in
\* front returns what M returns, and a message of zero bytes only returns
\* ffff.
C9_LeadingZeroBytes ==
    (int_ok(message[1]) /\ Ended(1))
        => /\ \A k \in 1..MaxPad :
                LET padded == crc16_wmbus(ZeroBytes(k) \o message[1])
                IN  padded = [raised |-> exc[1], ret |-> result[1]]
           /\ (\A i \in 1..Len(message[1]) : message[1][i] = "0")
                => (Returned(1) /\ result[1] = FFFF)

C9_Witness ==
    /\ Returned(1)
    /\ message[1] = <<"A", "5">>
    /\ crc16_wmbus(<<"0", "0", "0", "0", "A", "5">>).ret = result[1]
    /\ result[1] # FFFF

\* the returned checksum, high byte first
Swapped(r) == <<r[3], r[4], r[1], r[2]>>

\* what the call on the two-byte message FF FF ends with
ResidueFFFF == crc16_wmbus(<<"F", "F", "F", "F">>)

\* C10: for every non-empty message M with returned checksum C, the call on
\* M followed by C written high byte first returns one constant, the
\* result for the two-byte message FF FF.
C10_ConstantResidue ==
    (int_ok(message[1]) /\ Returned(1))
        => crc16_wmbus(message[1] \o Swapped(result[1])) = ResidueFFFF

C10_Witness ==
    /\ Returned(1)
    /\ message[1] = <<"1", "2">>
    /\ result[1] = <<"c", "a", "1", "4">>
    /\ crc16_wmbus(<<"1", "2", "1", "4", "c", "a">>).ret = <<"9", "9", "5", "c">>

====
